---------------------------- MODULE Spec2Model ----------------------------
(***************************************************************************)
(* A model of bin/helper_functions.py of AmpliconPipeline: the validation  *)
(* of OLC sample identifiers, the pairing of forward and reverse reads,    *)
(* the sample dictionary, its symlinks, the dummy barcodes, the project    *)
(* setup and the interop summary.                                          *)
(*                                                                         *)
(* A Python str is a sequence of one-character strings, so that slicing,   *)
(* splitting, searching and replacing are computed as Python computes      *)
(* them.  A path is such a str.  None is the one-element sequence          *)
(* <<"<None>">>, which is no str of characters.                            *)
(***************************************************************************)
EXTENDS Integers, Sequences, FiniteSets, TLC

None == <<"<None>">>

Digits == {"0", "1", "2", "3", "4", "5", "6", "7", "8", "9"}

(***************************************************************************)
(* Python's str primitives.                                                *)
(***************************************************************************)

\* s[:n]
Take(s, n) == SubSeq(s, 1, IF Len(s) < n THEN Len(s) ELSE n)

\* s[n:] (n counted from 0)
Drop(s, n) == SubSeq(s, n + 1, Len(s))

\* whether sub occurs in s at (1-based) position i
OccursAt(s, sub, i) ==
    /\ i >= 1
    /\ i + Len(sub) - 1 <= Len(s)
    /\ SubSeq(s, i, i + Len(sub) - 1) = sub

\* sub in s
Contains(s, sub) == \E i \in 1..(Len(s) + 1) : OccursAt(s, sub, i)

\* s.endswith(suffix)
EndsWith(s, suffix) ==
    /\ Len(suffix) <= Len(s)
    /\ SubSeq(s, Len(s) - Len(suffix) + 1, Len(s)) = suffix

\* s.isdigit(): at least one character, and all of them digits
IsDigit(s) == Len(s) > 0 /\ \A i \in 1..Len(s) : s[i] \in Digits

\* s.split(sep) for a one-character separator: always at least one component
RECURSIVE Split(_, _)
Split(s, sep) ==
    IF \A i \in 1..Len(s) : s[i] # sep
    THEN <<s>>
    ELSE LET i == CHOOSE k \in 1..Len(s) :
                      s[k] = sep /\ \A j \in 1..(k - 1) : s[j] # sep
         IN  <<SubSeq(s, 1, i - 1)>> \o Split(Drop(s, i), sep)

\* s.replace(old, new): every non-overlapping occurrence, left to right
RECURSIVE Replace(_, _, _)
Replace(s, old, new) ==
    IF Len(s) = 0 THEN <<>>
    ELSE IF OccursAt(s, old, 1)
         THEN new \o Replace(Drop(s, Len(old)), old, new)
         ELSE <<s[1]>> \o Replace(Drop(s, 1), old, new)

(***************************************************************************)
(* os.path on POSIX.                                                       *)
(***************************************************************************)

Slash == <<"/">>

\* the process's working directory
Cwd == <<"/", "w">>

\* the 0-based index just after the last "/" of p (0 when there is none)
LastSlash(p) ==
    IF \A i \in 1..Len(p) : p[i] # "/" THEN 0
    ELSE CHOOSE k \in 1..Len(p) :
             p[k] = "/" /\ \A j \in (k + 1)..Len(p) : p[j] # "/"

\* os.path.basename(p)
Basename(p) == Drop(p, LastSlash(p))

\* os.path.dirname(p), for a path with a directory part below the root
Dirname(p) == SubSeq(p, 1, LastSlash(p) - 1)

\* os.path.join(a, b)
Join(a, b) ==
    IF Len(b) > 0 /\ b[1] = "/" THEN b
    ELSE IF Len(a) = 0 \/ a[Len(a)] = "/" THEN a \o b
    ELSE a \o Slash \o b

\* os.path.abspath(p) of a path with no ".", ".." or doubled "/" in it
Abspath(p) == IF Len(p) > 0 /\ p[1] = "/" THEN p ELSE Join(Cwd, p)


(***************************************************************************)
(* The strings the program names.                                          *)
(***************************************************************************)

\* the length of an OLC sample ID: os.path.basename(file)[:13]
PrefixLen == 13

SEQ == <<"S", "E", "Q">>

FastqGz == <<".", "f", "a", "s", "t", "q", ".", "g", "z">>

ForwardId == <<"_", "R", "1">>

ReverseId == <<"_", "R", "2">>

LaneMarker == <<"_", "S">>

DummyBarcode == <<"_", "0", "0", "_", "S">>

DataName == <<"d", "a", "t", "a">>

QiimeName == <<"q", "i", "i", "m", "e", "2">>

ArtifactName ==
    <<"p", "a", "i", "r", "e", "d", "-", "s", "a", "m", "p", "l", "e", "-",
      "d", "a", "t", "a", ".", "q", "z", "a">>

InteropName ==
    <<"i", "n", "t", "e", "r", "o", "p", "_", "s", "u", "m", "m", "a", "r",
      "y", ".", "c", "s", "v">>

VersionPrefix == <<"#", " ", "V", "e", "r", "s", "i", "o", "n">>

\* out[0:9]
VersionLen == 9

\* len(out) > 4000
MinLen == 4000

\* one line of logging output
Msg(level, msg, arg) == <<[level |-> level, msg |-> msg, arg |-> arg]>>

\* what a function call comes to: it raises exc (and val is None), or it
\* returns val (and exc is ""); log is what it has logged
Return(val, log) == [exc |-> "", val |-> val, log |-> log]

Raise(exc, log) == [exc |-> exc, val |-> None, log |-> log]

(***************************************************************************)
(* valid_olc_id                                                            *)
(***************************************************************************)

\* The condition of the if is evaluated left to right and stops at the
\* first false conjunct; id_components[1] and id_components[2] raise
\* IndexError when the split has too few components.
ValidOlcId(filename) ==
    LET sample_id == Take(Basename(filename), PrefixLen)
        id_components == Split(sample_id, "-")
        invalid == Return(FALSE, Msg("warning", "not a valid OLC ID", sample_id))
    IN  IF ~IsDigit(id_components[1]) THEN invalid
        ELSE IF Len(id_components) < 2 THEN Raise("IndexError", <<>>)
        ELSE IF id_components[2] # SEQ THEN invalid
        ELSE IF Len(id_components) < 3 THEN Raise("IndexError", <<>>)
        ELSE IF ~IsDigit(id_components[3]) THEN invalid
        ELSE Return(TRUE, <<>>)

(***************************************************************************)
(* The file system: a function from the absolute path of each directory   *)
(* to its entries, a function from the name of each file or symlink in it *)
(* to what the name stands for.                                            *)
(***************************************************************************)

RegularFile(data) == [kind |-> "file", data |-> data]

Symlink(target) == [kind |-> "link", target |-> target]

IsDir(files, path) == path \in DOMAIN files

\* every ordering of a finite set: the orders in which the operating system
\* may list a directory, or Python a set
Orderings(S) ==
    {s \in [1..Cardinality(S) -> S] :
        \A i, j \in 1..Cardinality(S) : i # j => s[i] # s[j]}

\* glob's "*.fastq.gz": a name that ends so and does not start with a dot
MatchesFastqGz(name) == EndsWith(name, FastqGz) /\ name[1] # "."

\* retrieve_fastqgz: the lists glob.glob may return, in any order
RetrieveFastqgz(files, directory) ==
    IF ~IsDir(files, Abspath(directory)) THEN {<<>>}
    ELSE Orderings({Join(directory, n) :
                       n \in {m \in DOMAIN files[Abspath(directory)] :
                                 MatchesFastqGz(m)}})

(***************************************************************************)
(* retrieve_unique_sampleids                                               *)
(***************************************************************************)

\* the logging of the loop over the first n files
RECURSIVE ScanLog(_, _)
ScanLog(fastq_file_list, n) ==
    IF n = 0 THEN <<>>
    ELSE ScanLog(fastq_file_list, n - 1) \o ValidOlcId(fastq_file_list[n]).log

\* The loop stops at the first file valid_olc_id raises for.  The value is
\* the set of the IDs; list(set(...)) may put them in any order.
RetrieveUniqueSampleids(fastq_file_list) ==
    LET n == Len(fastq_file_list)
        info == Msg("info", "Scanning for valid OLC sample IDs", <<>>)
        raising == {i \in 1..n : ValidOlcId(fastq_file_list[i]).exc # ""}
        first == CHOOSE i \in raising : \A j \in raising : i <= j
    IN  IF raising # {}
        THEN Raise(ValidOlcId(fastq_file_list[first]).exc,
                   info \o ScanLog(fastq_file_list, first - 1))
        ELSE Return({Take(Basename(fastq_file_list[i]), PrefixLen) :
                        i \in {j \in 1..n : ValidOlcId(fastq_file_list[j]).val}},
                    info \o ScanLog(fastq_file_list, n))

(***************************************************************************)
(* get_readpair                                                            *)
(***************************************************************************)

\* ReadpairStep with the first match kept instead of the last
ReadpairStepFirstWins(acc, file, sample_id, forward_id, reverse_id) ==
    IF Contains(Basename(file), sample_id)
    THEN IF Contains(Basename(file), forward_id)
         THEN [acc EXCEPT !.r1 = IF acc.r1 = None THEN file ELSE acc.r1]
         ELSE IF Contains(Basename(file), reverse_id)
              THEN [acc EXCEPT !.r2 = IF acc.r2 = None THEN file ELSE acc.r2]
              ELSE acc
    ELSE acc

\* the body of the loop over fastq_file_list
ReadpairStep(acc, file, sample_id, forward_id, reverse_id) ==
    IF Contains(Basename(file), sample_id)
    THEN IF Contains(Basename(file), forward_id)
         THEN [acc EXCEPT !.r1 = file]
         ELSE IF Contains(Basename(file), reverse_id)
              THEN [acc EXCEPT !.r2 = file]
              ELSE acc
    ELSE acc

\* r1 and r2 after the loop over the first n files
RECURSIVE ReadpairScan(_, _, _, _, _)
ReadpairScan(sample_id, fastq_file_list, forward_id, reverse_id, n) ==
    IF n = 0 THEN [r1 |-> None, r2 |-> None]
    ELSE ReadpairStep(ReadpairScan(sample_id, fastq_file_list, forward_id,
                                   reverse_id, n - 1),
                      fastq_file_list[n], sample_id, forward_id, reverse_id)

\* os.path.abspath(None) raises TypeError; a function that ends without a
\* return returns None
GetReadpair(sample_id, fastq_file_list, forward_id, reverse_id) ==
    LET found == ReadpairScan(sample_id, fastq_file_list, forward_id,
                              reverse_id, Len(fastq_file_list))
    IN  IF found.r1 # None
        THEN IF found.r2 = None THEN Raise("TypeError", <<>>)
             ELSE Return(<<Abspath(found.r1), Abspath(found.r2)>>, <<>>)
        ELSE Return(None, Msg("debug", "Could not pair", sample_id))

(***************************************************************************)
(* populate_sample_dictionary, get_sample_dictionary                       *)
(***************************************************************************)

\* A dict: its keys in the order of their insertion, and the value of each.
\* The loop stops at the first sample ID get_readpair raises for.
RECURSIVE PopulateSampleDictionary(_, _, _)
PopulateSampleDictionary(sample_id_list, fastq_file_list, n) ==
    IF n = 0 THEN Return([keys |-> <<>>, value |-> <<>>], <<>>)
    ELSE LET before == PopulateSampleDictionary(sample_id_list,
                                                fastq_file_list, n - 1)
             sample_id == sample_id_list[n]
             read_pair == GetReadpair(sample_id, fastq_file_list,
                                      ForwardId, ReverseId)
         IN  IF before.exc # "" THEN before
             ELSE IF read_pair.exc # ""
                  THEN Raise(read_pair.exc, before.log \o read_pair.log)
                  ELSE Return([keys |-> Append(before.val.keys, sample_id),
                               value |-> (sample_id :> read_pair.val)
                                             @@ before.val.value],
                              before.log \o read_pair.log)

\* every outcome of get_sample_dictionary(directory): one for each order of
\* the files and each order of the sample IDs
GetSampleDictionary(files, directory) ==
    UNION {LET ids == RetrieveUniqueSampleids(fastq_file_list)
           IN  IF ids.exc # "" THEN {ids}
               ELSE {LET d == PopulateSampleDictionary(sample_id_list,
                                   fastq_file_list, Len(sample_id_list))
                     IN  [d EXCEPT !.log = ids.log \o d.log] :
                        sample_id_list \in Orderings(ids.val)} :
              fastq_file_list \in RetrieveFastqgz(files, directory)}

(***************************************************************************)
(* create_symlink, symlink_dictionary                                      *)
(***************************************************************************)

\* a function without the argument name
Without(entries, name) == [n \in DOMAIN entries \ {name} |-> entries[n]]

\* os.symlink(target, os.path.join(destination_folder,
\* os.path.basename(target))): os.path.basename(None) raises TypeError,
\* os.symlink raises FileExistsError when the name is taken
CreateSymlink(files, target, destination_folder) ==
    IF target = None THEN [exc |-> "TypeError", files |-> files]
    ELSE LET link == Abspath(Join(destination_folder, Basename(target)))
             dir == Dirname(link)
         IN  IF ~IsDir(files, dir)
             THEN [exc |-> "FileNotFoundError", files |-> files]
             ELSE IF Basename(link) \in DOMAIN files[dir] \/ IsDir(files, link)
                  THEN [exc |-> "FileExistsError", files |-> files]
                  ELSE [exc |-> "",
                        files |-> [files EXCEPT ![dir] =
                                      (Basename(link) :> Symlink(target)) @@ @]]

\* the two calls of create_symlink in the try block: value[0] of None
\* raises TypeError, and the second call is not made when the first raises
LinkPair(files, value, destination_folder) ==
    IF value = None THEN [exc |-> "TypeError", files |-> files]
    ELSE LET first == CreateSymlink(files, value[1], destination_folder)
         IN  IF first.exc # "" THEN first
             ELSE CreateSymlink(first.files, value[2], destination_folder)

\* SymlinkEntry with an except clause that lets the exception through
SymlinkEntryUncaught(files, key, value, destination_folder) ==
    LET linked == LinkPair(files, value, destination_folder)
    IN  [exc |-> linked.exc, files |-> linked.files,
         log |-> IF linked.exc = ""
                 THEN Msg("debug", "Created symlinks for", key)
                 ELSE <<>>]

\* the body of the loop over sample_dictionary.items(): the bare except
\* catches whatever the try block raises
SymlinkEntry(files, key, value, destination_folder) ==
    LET linked == LinkPair(files, value, destination_folder)
    IN  [exc |-> "", files |-> linked.files,
         log |-> IF linked.exc = ""
                 THEN Msg("debug", "Created symlinks for", key)
                 ELSE Msg("error", "Symbolic links to read pair already exist",
                          key)]

\* symlink_dictionary after the first n items of the dictionary
RECURSIVE SymlinkDictionary(_, _, _, _)
SymlinkDictionary(files, sample_dictionary, destination_folder, n) ==
    IF n = 0
    THEN [exc |-> "", files |-> files,
          log |-> Msg("info", "Creating symlinks for samples at",
                      destination_folder)]
    ELSE LET before == SymlinkDictionary(files, sample_dictionary,
                                         destination_folder, n - 1)
             key == sample_dictionary.keys[n]
             entry == SymlinkEntry(before.files, key,
                                   sample_dictionary.value[key],
                                   destination_folder)
         IN  IF before.exc # "" THEN before
             ELSE [entry EXCEPT !.log = before.log \o @]

(***************************************************************************)
(* append_dummy_barcodes                                                   *)
(***************************************************************************)

\* os.rename(src, dst) of absolute paths: the name moves, and what it
\* stands for (a symlink's target) stays; a taken dst is replaced
Rename(files, src, dst) ==
    IF \/ ~IsDir(files, Dirname(src))
       \/ Basename(src) \notin DOMAIN files[Dirname(src)]
       \/ ~IsDir(files, Dirname(dst))
    THEN [exc |-> "FileNotFoundError", files |-> files]
    ELSE IF src = dst THEN [exc |-> "", files |-> files]
    ELSE LET moved == files[Dirname(src)][Basename(src)]
             removed == [files EXCEPT ![Dirname(src)] = Without(@, Basename(src))]
         IN  [exc |-> "",
              files |-> [removed EXCEPT ![Dirname(dst)] =
                            (Basename(dst) :> moved) @@ @]]

\* the loop over the first n files that retrieve_fastqgz(path) has listed
RECURSIVE BarcodeLoop(_, _, _)
BarcodeLoop(files, fastq_file_list, n) ==
    IF n = 0 THEN [exc |-> "", files |-> files, log |-> <<>>]
    ELSE LET before == BarcodeLoop(files, fastq_file_list, n - 1)
             file == fastq_file_list[n]
             valid == ValidOlcId(file)
             renamed == Rename(before.files, Abspath(file),
                               Replace(Abspath(file), LaneMarker, DummyBarcode))
         IN  IF before.exc # "" THEN before
             ELSE IF valid.exc # ""
                  THEN [exc |-> valid.exc, files |-> before.files,
                        log |-> before.log]
                  ELSE IF ~valid.val
                       THEN [before EXCEPT !.log = @ \o valid.log]
                       ELSE [exc |-> renamed.exc, files |-> renamed.files,
                             log |-> before.log]

\* every outcome of append_dummy_barcodes(path): one for each order of the
\* files
AppendDummyBarcodes(files, path) ==
    {LET looped == BarcodeLoop(files, fastq_file_list, Len(fastq_file_list))
     IN  IF looped.exc # "" THEN looped
         ELSE [looped EXCEPT !.log =
                  @ \o Msg("info", "Added dummy barcodes", path)] :
        fastq_file_list \in RetrieveFastqgz(files, path)}

(***************************************************************************)
(* execute_command and the two tools                                       *)
(***************************************************************************)

\* a byte of a tool's output that is no ASCII character
NonAscii == "<e9>"

\* bytes.decode('ascii'): the characters of the bytes, or UnicodeDecodeError
DecodeAscii(bytes) ==
    IF \E i \in 1..Len(bytes) : bytes[i] = NonAscii
    THEN [exc |-> "UnicodeDecodeError", str |-> None]
    ELSE [exc |-> "", str |-> bytes]

\* execute_command(cmd), the process having written run.out and run.err:
\* out is decoded before err
ExecuteCommand(run) ==
    LET out == DecodeAscii(run.out)
        err == DecodeAscii(run.err)
    IN  IF out.exc # "" THEN [exc |-> out.exc, out |-> None, err |-> None]
        ELSE IF err.exc # "" THEN [exc |-> err.exc, out |-> None, err |-> None]
        ELSE [exc |-> "", out |-> out.str, err |-> err.str]

\* the command line create_sampledata_artifact builds
ImportCommand(datadir, qiimedir) ==
    [tool |-> "qiime tools import",
     type |-> "SampleData[PairedEndSequencesWithQuality]",
     input_path |-> datadir,
     output_path |-> Join(qiimedir, ArtifactName),
     input_format |-> "CasavaOneEightSingleLanePerSampleDirFmt"]

\* create_sampledata_artifact(datadir, qiimedir), the tool having written
\* run.out and run.err: nothing of the tool's outcome is looked at
CreateSampledataArtifact(datadir, qiimedir, run) ==
    LET streams == ExecuteCommand(run)
    IN  IF streams.exc # "" THEN Raise(streams.exc, <<>>)
        ELSE Return(Join(qiimedir, ArtifactName),
                    (IF streams.out # <<>> \/ streams.err # <<>>
                     THEN Msg("debug", "OUT ERR", streams.out \o streams.err)
                     ELSE <<>>)
                    \o Msg("info", "Successfully created QIIME 2 data Artifact",
                           <<>>))

(***************************************************************************)
(* os.mkdir                                                                *)
(***************************************************************************)

\* os.makedirs(path, exist_ok=True) in the place of os.mkdir(path)
MkdirExistOk(files, path) ==
    IF IsDir(files, Abspath(path)) THEN [exc |-> "", files |-> files]
    ELSE IF ~IsDir(files, Dirname(Abspath(path)))
         THEN [exc |-> "FileNotFoundError", files |-> files]
         ELSE [exc |-> "", files |-> (Abspath(path) :> <<>>) @@ files]

\* os.mkdir(path)
Mkdir(files, path) ==
    IF IsDir(files, Abspath(path))
    THEN [exc |-> "FileExistsError", files |-> files]
    ELSE IF ~IsDir(files, Dirname(Abspath(path)))
         THEN [exc |-> "FileNotFoundError", files |-> files]
         ELSE IF Basename(Abspath(path)) \in DOMAIN files[Dirname(Abspath(path))]
              THEN [exc |-> "FileExistsError", files |-> files]
              ELSE [exc |-> "", files |-> (Abspath(path) :> <<>>) @@ files]

(***************************************************************************)
(* make_interop_summary                                                    *)
(***************************************************************************)

\* open(path, "w"), write(out), close(): the file is made or replaced, and
\* open raises when the directory is missing
WriteFile(files, path, data) ==
    IF ~IsDir(files, Dirname(Abspath(path)))
    THEN [exc |-> "FileNotFoundError", files |-> files]
    ELSE [exc |-> "",
          files |-> [files EXCEPT ![Dirname(Abspath(path))] =
                        (Basename(path) :> RegularFile(data))
                            @@ Without(@, Basename(path))]]

\* make_interop_summary(inputdir, outdir), interop_summary having written
\* run.out and run.err
MakeInteropSummary(files, inputdir, outdir, run) ==
    LET streams == ExecuteCommand(run)
        written == WriteFile(files, Join(outdir, InteropName), streams.out)
    IN  IF streams.exc # ""
        THEN [exc |-> streams.exc, files |-> files, log |-> <<>>]
        ELSE IF Take(streams.out, VersionLen) = VersionPrefix
                    /\ Len(streams.out) > MinLen
             THEN IF written.exc = ""
                  THEN [exc |-> "", files |-> written.files,
                        log |-> Msg("info", "Made the interop_summary file", <<>>)]
                  ELSE [exc |-> "", files |-> files,
                        log |-> Msg("info",
                                    "Couldn't write the interop_summary file!",
                                    <<>>)]
             ELSE [exc |-> "", files |-> files,
                   log |-> Msg("info",
                               "Something went wrong with interop_summary!",
                               <<>>)]

(***************************************************************************)
(* The state: the call in progress, the file system, and what the call has *)
(* returned, logged and executed.                                          *)
(***************************************************************************)
VARIABLES
    op,      \* the function called
    args,    \* its arguments
    pc,      \* where the call is: a place in the function, "done", "raised"
    loc,     \* its local variables
    ret,     \* what it returned or raised
    files,   \* the file system
    files0,  \* the file system when the call began
    log,     \* the logging output, in order
    cmds     \* the shell commands executed, in order

vars == <<op, args, pc, loc, ret, files, files0, log, cmds>>

NoReturn == [exc |-> "", val |-> None]

Result(r) == [exc |-> r.exc, val |-> r.val]

After(r) == IF r.exc = "" THEN "done" ELSE "raised"

\* a call of a function with its arguments, in a file system
Begin(function, arguments, at, fs) ==
    /\ op = function
    /\ args = arguments
    /\ pc = at
    /\ loc = <<>>
    /\ ret = NoReturn
    /\ files = fs
    /\ files0 = fs
    /\ log = <<>>
    /\ cmds = <<>>

(***************************************************************************)
(* The files of the runs.                                                  *)
(***************************************************************************)

\* the most read files of a directory
MaxFiles == 4

Id2015 == <<"2", "0", "1", "5", "-", "S", "E", "Q", "-", "0", "0", "0", "1">>

Id2016 == <<"2", "0", "1", "6", "-", "S", "E", "Q", "-", "0", "0", "0", "2">>

Ids == {Id2015, Id2016}

S1 == <<"_", "S", "1">>

S2 == <<"_", "S", "2">>

SX == <<"_", "S", "X">>

\* the two reads of two samples
PairedNames ==
    {Id2015 \o S1 \o ForwardId \o FastqGz, Id2015 \o S1 \o ReverseId \o FastqGz,
     Id2016 \o S2 \o ForwardId \o FastqGz, Id2016 \o S2 \o ReverseId \o FastqGz}

\* a name with both markers, a name with two lane markers, a name whose
\* first 13 characters are digits, and a name with no OLC ID
OddNames ==
    {Id2015 \o S1 \o ForwardId \o ReverseId \o FastqGz,
     Id2016 \o S2 \o SX \o ReverseId \o FastqGz,
     <<"1", "2", "3", "4", "5", "6", "7", "8", "9", "0", "1", "2", "3">>
         \o S1 \o ForwardId \o FastqGz,
     <<"a", "b", "c", "-", "S", "E", "Q", "-", "0", "0", "0", "1">>
         \o S1 \o ForwardId \o FastqGz}

Names == PairedNames \cup OddNames

\* the sets of at most n elements of S
UpTo(S, n) == {T \in SUBSET S : Cardinality(T) <= n}

\* the working directory alone
BaseFiles == (Cwd :> <<>>)

\* a directory of read files
ReadFiles(names) == [n \in names |-> RegularFile(<<>>)]

(***************************************************************************)
(* valid_olc_id, called with a filename.                                   *)
(***************************************************************************)

Comp0 ==
    {<<>>, <<"1">>, <<"2", "0", "1", "5">>, <<"a", "b", "c">>, <<"1", "2", "a">>,
     <<"1", "2", "3", "4", "5", "6", "7", "8", "9", "0", "1", "2", "3">>}

Comp1 == {SEQ, <<"X", "X", "X">>, <<"S", "E">>, <<"s", "e", "q">>, <<>>}

Comp2 == {<<"1">>, <<"0", "0", "0", "1">>, <<"0", "a", "1">>, <<>>}

Tails ==
    {<<>>, <<"-", "a", "b", "c", "d", "e">>, S1 \o ForwardId \o FastqGz,
     <<"0", "0", "0", "0", "0", "0", "0", "0">>}

DirParts == {<<>>, <<"/", "d", "/">>, <<"/", "1", "-", "S", "E", "Q", "-", "1", "/">>}

Filenames ==
    {d \o c0 : d \in DirParts, c0 \in Comp0}
    \cup {d \o c0 \o <<"-">> \o c1 : d \in DirParts, c0 \in Comp0, c1 \in Comp1}
    \cup {d \o c0 \o <<"-">> \o c1 \o <<"-">> \o c2 \o t :
             d \in DirParts, c0 \in Comp0, c1 \in Comp1, c2 \in Comp2, t \in Tails}

InitValid ==
    \E filename \in Filenames :
        Begin("valid_olc_id", [filename |-> filename], "call", BaseFiles)

ValidOlcIdCall ==
    /\ op = "valid_olc_id"
    /\ pc = "call"
    /\ LET r == ValidOlcId(args.filename)
       IN  /\ ret' = Result(r)
           /\ log' = log \o r.log
           /\ pc' = After(r)
    /\ UNCHANGED <<op, args, loc, files, files0, cmds>>

NextValid == ValidOlcIdCall

SpecValid == InitValid /\ [][NextValid]_vars

(***************************************************************************)
(* get_readpair, called with a sample ID and a list of files.              *)
(***************************************************************************)

InDir == Cwd \o <<"/", "i", "n">>

\* the lists of at most n distinct elements of S
ListsUpTo(S, n) == UNION {Orderings(T) : T \in UpTo(S, n)}

InitPair ==
    \E sample_id \in Ids :
        \E fastq_file_list \in ListsUpTo({Join(InDir, n) : n \in Names}, MaxFiles) :
            Begin("get_readpair",
                  [sample_id |-> sample_id, fastq_file_list |-> fastq_file_list],
                  "call", BaseFiles)

\* forward_id and reverse_id take their defaults
GetReadpairCall ==
    /\ op = "get_readpair"
    /\ pc = "call"
    /\ LET r == GetReadpair(args.sample_id, args.fastq_file_list,
                            ForwardId, ReverseId)
       IN  /\ ret' = Result(r)
           /\ log' = log \o r.log
           /\ pc' = After(r)
    /\ loc' = ReadpairScan(args.sample_id, args.fastq_file_list, ForwardId,
                           ReverseId, Len(args.fastq_file_list))
    /\ UNCHANGED <<op, args, files, files0, cmds>>

NextPair == GetReadpairCall

SpecPair == InitPair /\ [][NextPair]_vars

(***************************************************************************)
(* get_sample_dictionary, called with a directory of at most MaxFiles      *)
(* files, named by its absolute path or relative to the working directory. *)
(***************************************************************************)

InDirs == {InDir, <<"i", "n">>}

InitDict ==
    \E names \in UpTo(Names, MaxFiles) :
        \E directory \in InDirs :
            Begin("get_sample_dictionary", [directory |-> directory], "call",
                  (InDir :> ReadFiles(names)) @@ BaseFiles)

GetSampleDictionaryCall ==
    /\ op = "get_sample_dictionary"
    /\ pc = "call"
    /\ \E r \in GetSampleDictionary(files, args.directory) :
           /\ ret' = Result(r)
           /\ log' = log \o r.log
           /\ pc' = After(r)
    /\ UNCHANGED <<op, args, loc, files, files0, cmds>>

NextDict == GetSampleDictionaryCall

SpecDict == InitDict /\ [][NextDict]_vars

(***************************************************************************)
(* symlink_dictionary, called with a dictionary of at most MaxSamples      *)
(* samples and a destination folder that holds at most MaxLinks symlinks   *)
(* already.  The loop is followed item by item.                            *)
(***************************************************************************)

\* the most samples of a dictionary
MaxSamples == 2

\* the most symlinks in the destination folder before the call
MaxLinks == 1

Id2017 == <<"2", "0", "1", "7", "-", "S", "E", "Q", "-", "0", "0", "0", "3">>

DstDir == Cwd \o <<"/", "d", "s", "t">>

\* where the symlinks of an earlier run point
OldTarget == <<"/", "o", "l", "d">>

\* the read files the values of a dictionary name
LinkPaths ==
    {Join(InDir, Id2015 \o S1 \o ForwardId \o FastqGz),
     Join(InDir, Id2015 \o S1 \o ReverseId \o FastqGz),
     Join(InDir, Id2016 \o S2 \o ForwardId \o FastqGz)}

\* the values of a dictionary: None, or a forward path and a reverse path
\* or None
ReadPairs ==
    {None} \cup {<<f, r>> : f \in LinkPaths, r \in LinkPaths \cup {None}}

\* the dictionaries of the sample IDs of S, inserted in any order
Dictionaries(S, n) ==
    UNION {{[keys |-> keys, value |-> value] :
               value \in [{keys[i] : i \in 1..Len(keys)} -> ReadPairs]} :
              keys \in ListsUpTo(S, n)}

InitLink ==
    \E sample_dictionary \in Dictionaries({Id2015, Id2016, Id2017}, MaxSamples) :
        \E taken \in UpTo({Basename(q) : q \in LinkPaths}, MaxLinks) :
            Begin("symlink_dictionary",
                  [sample_dictionary |-> sample_dictionary,
                   destination_folder |-> DstDir],
                  "call",
                  (DstDir :> [n \in taken |-> Symlink(OldTarget)]) @@ BaseFiles)

\* line 133
SymlinkDictionaryEnter ==
    /\ op = "symlink_dictionary"
    /\ pc = "call"
    /\ pc' = "loop"
    /\ loc' = [i |-> 0]
    /\ log' = log \o SymlinkDictionary(files, args.sample_dictionary,
                                       args.destination_folder, 0).log
    /\ UNCHANGED <<op, args, ret, files, files0, cmds>>

\* one turn of the loop
SymlinkDictionaryItem ==
    /\ op = "symlink_dictionary"
    /\ pc = "loop"
    /\ loc.i < Len(args.sample_dictionary.keys)
    /\ LET key == args.sample_dictionary.keys[loc.i + 1]
           r == SymlinkEntry(files, key, args.sample_dictionary.value[key],
                             args.destination_folder)
       IN  /\ files' = r.files
           /\ log' = log \o r.log
           /\ IF r.exc = ""
              THEN pc' = "loop" /\ ret' = ret
              ELSE pc' = "raised" /\ ret' = [exc |-> r.exc, val |-> None]
    /\ loc' = [i |-> loc.i + 1]
    /\ UNCHANGED <<op, args, files0, cmds>>

\* the end of the loop
SymlinkDictionaryReturn ==
    /\ op = "symlink_dictionary"
    /\ pc = "loop"
    /\ loc.i = Len(args.sample_dictionary.keys)
    /\ pc' = "done"
    /\ UNCHANGED <<op, args, loc, ret, files, files0, log, cmds>>

NextLink ==
    \/ SymlinkDictionaryEnter
    \/ SymlinkDictionaryItem
    \/ SymlinkDictionaryReturn

SpecLink == InitLink /\ [][NextLink]_vars

(***************************************************************************)
(* append_dummy_barcodes, called with a folder of at most MaxFiles         *)
(* symlinks.                                                               *)
(***************************************************************************)

BarcodeDirs == {DstDir, Cwd \o <<"/", "d", "_", "S">>}

\* the names valid_olc_id returns for
ReturningNames == {n \in Names : ValidOlcId(n).exc = ""}

InitBarcode ==
    \E names \in UpTo(ReturningNames, MaxFiles) :
        \E path \in BarcodeDirs :
            Begin("append_dummy_barcodes", [path |-> path], "call",
                  (path :> [n \in names |-> Symlink(Join(InDir, n))])
                      @@ BaseFiles)

AppendDummyBarcodesCall ==
    /\ op = "append_dummy_barcodes"
    /\ pc = "call"
    /\ \E r \in AppendDummyBarcodes(files, args.path) :
           /\ files' = r.files
           /\ log' = log \o r.log
           /\ ret' = [exc |-> r.exc, val |-> None]
           /\ pc' = After(r)
    /\ UNCHANGED <<op, args, loc, files0, cmds>>

NextBarcode == AppendDummyBarcodesCall

SpecBarcode == InitBarcode /\ [][NextBarcode]_vars

(***************************************************************************)
(* project_setup, called with an output directory that exists or not and   *)
(* an input directory of at most MaxFiles files.  The function is followed *)
(* statement by statement.                                                 *)
(***************************************************************************)

OutDirs ==
    {Cwd \o <<"/", "o", "u", "t">>, Cwd \o <<"/", "o", "_", "S">>,
     <<"o", "u", "t">>}

\* the output directory before the call: missing, empty, or left by an
\* earlier run
Earlier(outdir) ==
    {<<>>,
     (Abspath(outdir) :> <<>>),
     (Abspath(outdir) :> <<>>) @@ (Abspath(Join(outdir, DataName)) :> <<>>)
         @@ (Abspath(Join(outdir, QiimeName)) :> <<>>)}

\* what qiime may write to its streams, and whether it writes the artifact
QiimeRuns ==
    {[out |-> <<>>, err |-> <<>>, artifact |-> TRUE],
     [out |-> <<"o", "k">>, err |-> <<>>, artifact |-> TRUE],
     [out |-> <<>>, err |-> <<"n", "o">>, artifact |-> FALSE],
     [out |-> <<>>, err |-> <<"n", NonAscii>>, artifact |-> FALSE]}

\* what the import does to the file system
QiimeImport(fs, cmd, run) ==
    IF run.artifact
    THEN WriteFile(fs, cmd.output_path, <<"q", "z", "a">>).files
    ELSE fs

InitSetup ==
    \E names \in UpTo(Names, MaxFiles) :
        \E outdir \in OutDirs, inputdir \in InDirs :
            \E earlier \in Earlier(outdir) :
                Begin("project_setup", [outdir |-> outdir, inputdir |-> inputdir],
                      "mkdir_outdir",
                      earlier @@ (InDir :> ReadFiles(names)) @@ BaseFiles)

\* an os.mkdir of project_setup, and what is logged after it
MkdirStep(at, path, next, logged) ==
    /\ op = "project_setup"
    /\ pc = at
    /\ LET r == Mkdir(files, path)
       IN  /\ files' = r.files
           /\ ret' = IF r.exc = "" THEN ret ELSE [exc |-> r.exc, val |-> None]
           /\ log' = IF r.exc = "" THEN log \o logged ELSE log
           /\ pc' = IF r.exc = "" THEN next ELSE "raised"
    /\ UNCHANGED <<op, args, loc, files0, cmds>>

\* line 166
MkdirOutdir == MkdirStep("mkdir_outdir", args.outdir, "mkdir_data", <<>>)

\* line 167
MkdirData ==
    MkdirStep("mkdir_data", Join(args.outdir, DataName), "mkdir_qiime2", <<>>)

\* lines 168 and 169
MkdirQiime ==
    MkdirStep("mkdir_qiime2", Join(args.outdir, QiimeName),
              "get_sample_dictionary",
              Msg("debug", "Created QIIME2 analysis folder", args.outdir))

\* lines 172 and 173
SetupGetSampleDictionary ==
    /\ op = "project_setup"
    /\ pc = "get_sample_dictionary"
    /\ \E r \in GetSampleDictionary(files, args.inputdir) :
           /\ log' = log \o r.log
                         \o IF r.exc = ""
                            THEN Msg("debug", "Sample Dictionary", <<>>)
                            ELSE <<>>
           /\ IF r.exc = ""
              THEN /\ loc' = [sample_dictionary |-> r.val]
                   /\ ret' = ret
                   /\ pc' = "symlink_dictionary"
              ELSE /\ loc' = loc
                   /\ ret' = [exc |-> r.exc, val |-> None]
                   /\ pc' = "raised"
    /\ UNCHANGED <<op, args, files, files0, cmds>>

\* line 176
SetupSymlinkDictionary ==
    /\ op = "project_setup"
    /\ pc = "symlink_dictionary"
    /\ LET r == SymlinkDictionary(files, loc.sample_dictionary,
                                  Join(args.outdir, DataName),
                                  Len(loc.sample_dictionary.keys))
       IN  /\ files' = r.files
           /\ log' = log \o r.log
           /\ ret' = IF r.exc = "" THEN ret ELSE [exc |-> r.exc, val |-> None]
           /\ pc' = IF r.exc = "" THEN "append_dummy_barcodes" ELSE "raised"
    /\ UNCHANGED <<op, args, loc, files0, cmds>>

\* line 179
SetupAppendDummyBarcodes ==
    /\ op = "project_setup"
    /\ pc = "append_dummy_barcodes"
    /\ \E r \in AppendDummyBarcodes(files, Join(args.outdir, DataName)) :
           /\ files' = r.files
           /\ log' = log \o r.log
           /\ ret' = IF r.exc = "" THEN ret ELSE [exc |-> r.exc, val |-> None]
           /\ pc' = IF r.exc = "" THEN "create_sampledata_artifact" ELSE "raised"
    /\ UNCHANGED <<op, args, loc, files0, cmds>>

\* lines 182 to 185
SetupCreateSampledataArtifact ==
    /\ op = "project_setup"
    /\ pc = "create_sampledata_artifact"
    /\ \E run \in QiimeRuns :
           LET datadir == Join(args.outdir, DataName)
               qiimedir == Join(args.outdir, QiimeName)
               cmd == ImportCommand(datadir, qiimedir)
               r == CreateSampledataArtifact(datadir, qiimedir, run)
           IN  /\ cmds' = Append(cmds, [cmd |-> cmd, run |-> run,
                                        sees |-> files[Abspath(datadir)]])
               /\ files' = QiimeImport(files, cmd, run)
               /\ log' = log \o Msg("info", "Creating sample data artifact", <<>>)
                             \o r.log
               /\ ret' = Result(r)
               /\ pc' = After(r)
    /\ UNCHANGED <<op, args, loc, files0>>

NextSetup ==
    \/ MkdirOutdir
    \/ MkdirData
    \/ MkdirQiime
    \/ SetupGetSampleDictionary
    \/ SetupSymlinkDictionary
    \/ SetupAppendDummyBarcodes
    \/ SetupCreateSampledataArtifact

SpecSetup == InitSetup /\ [][NextSetup]_vars

(***************************************************************************)
(* make_interop_summary, called with an output directory that exists or    *)
(* not.                                                                    *)
(***************************************************************************)

\* n bytes of output: head, cut or filled up with fill
Output(head, n, fill) ==
    [i \in 1..n |-> IF i <= Len(head) THEN head[i] ELSE fill]

Heads ==
    {VersionPrefix, <<>>, <<" ">> \o VersionPrefix,
     <<"#", " ", "v", "e", "r", "s", "i", "o", "n">>}

OutLens == {0, VersionLen - 1, VersionLen, MinLen, MinLen + 1}

InteropRuns ==
    {[out |-> Output(head, n, fill), err |-> err] :
        head \in Heads, n \in OutLens, fill \in {"x", NonAscii},
        err \in {<<>>, <<"w">>, <<NonAscii>>}}

InteropOut == Cwd \o <<"/", "o", "u", "t">>

InitInterop ==
    \E fs \in {BaseFiles, (InteropOut :> <<>>) @@ BaseFiles,
               (InteropOut :> (InteropName :> RegularFile(<<"o", "l", "d">>)))
                   @@ BaseFiles} :
        Begin("make_interop_summary", [inputdir |-> InDir, outdir |-> InteropOut],
              "call", fs)

MakeInteropSummaryCall ==
    /\ op = "make_interop_summary"
    /\ pc = "call"
    /\ \E run \in InteropRuns :
           LET r == MakeInteropSummary(files, args.inputdir, args.outdir, run)
           IN  /\ cmds' = Append(cmds, [cmd |-> [tool |-> "interop_summary",
                                                 arg |-> args.inputdir],
                                        run |-> run])
               /\ files' = r.files
               /\ log' = log \o r.log
               /\ ret' = [exc |-> r.exc, val |-> None]
               /\ pc' = After(r)
    /\ UNCHANGED <<op, args, loc, files0>>

NextInterop == MakeInteropSummaryCall

SpecInterop == InitInterop /\ [][NextInterop]_vars

(***************************************************************************)
(* All the calls together.                                                 *)
(***************************************************************************)

Init ==
    \/ InitValid
    \/ InitPair
    \/ InitDict
    \/ InitLink
    \/ InitBarcode
    \/ InitSetup
    \/ InitInterop

Next ==
    \/ NextValid
    \/ NextPair
    \/ NextDict
    \/ NextLink
    \/ NextBarcode
    \/ NextSetup
    \/ NextInterop

Spec == Init /\ [][Next]_vars

(***************************************************************************)
(* The properties of valid_olc_id, under SpecValid.                        *)
(***************************************************************************)

Returned == pc \in {"done", "raised"}

\* the first 13 characters of the basename of the filename validated
CandidateId == Take(Basename(args.filename), PrefixLen)

DashCount(s) == Cardinality({i \in 1..Len(s) : s[i] = "-"})

\* s is digits, "-SEQ-", digits, and nothing else
MatchesOlc(s) ==
    \E i \in 1..Len(s) :
        /\ IsDigit(SubSeq(s, 1, i))
        /\ OccursAt(s, <<"-">> \o SEQ \o <<"-">>, i + 1)
        /\ IsDigit(Drop(s, i + 5))

\* C1: valid_olc_id raises for no filename, and returns false when the
\* basename has fewer than 13 characters or its first 13 characters have
\* fewer than two dashes.
C1_NeverRaises ==
    (op = "valid_olc_id" /\ Returned) =>
        /\ ret.exc = ""
        /\ (Len(Basename(args.filename)) < PrefixLen \/ DashCount(CandidateId) < 2)
               => ret.val = FALSE

\* C2: valid_olc_id returns true exactly when the first 13 characters of
\* the basename are, as a whole, digits, "-SEQ-", digits.
C2_TrueIffPattern ==
    (op = "valid_olc_id" /\ Returned) =>
        ((ret.exc = "" /\ ret.val = TRUE) <=> MatchesOlc(CandidateId))

(***************************************************************************)
(* The properties of get_readpair, under SpecPair.                         *)
(***************************************************************************)

\* the files of the list whose basename contains the sample ID and marker
Carries(file, marker) ==
    /\ Contains(Basename(file), args.sample_id)
    /\ Contains(Basename(file), marker)

\* the last file of the list for which P holds, or None
LastOf(list, P(_)) ==
    IF \E i \in 1..Len(list) : P(list[i])
    THEN list[CHOOSE i \in 1..Len(list) :
                  P(list[i]) /\ \A j \in (i + 1)..Len(list) : ~P(list[j])]
    ELSE None

IsForward(file) == Carries(file, ForwardId)

IsReverse(file) == Carries(file, ReverseId)

IsReverseOnly(file) == Carries(file, ReverseId) /\ ~Carries(file, ForwardId)

\* C4: with a forward file of the sample ID in the list and no reverse
\* file, get_readpair does not raise and returns the absolute path of the
\* forward file and None.
C4_ForwardWithoutReverse ==
    (/\ op = "get_readpair"
     /\ Returned
     /\ \E i \in 1..Len(args.fastq_file_list) : IsForward(args.fastq_file_list[i])
     /\ \A i \in 1..Len(args.fastq_file_list) : ~IsReverse(args.fastq_file_list[i]))
        => /\ ret.exc = ""
           /\ ret.val = <<Abspath(LastOf(args.fastq_file_list, IsForward)), None>>

\* C10, as claimed: the forward slot is the last file of the list whose
\* basename contains the sample ID and the forward marker, and the reverse
\* slot the last whose basename contains the sample ID and the reverse
\* marker, a file with both markers included.
C10_LastOfEachMarker ==
    (op = "get_readpair" /\ Returned) =>
        /\ loc.r1 = LastOf(args.fastq_file_list, IsForward)
        /\ loc.r2 = LastOf(args.fastq_file_list, IsReverse)

\* C10, amended: the forward slot is the last file of the list whose
\* basename contains the sample ID and the forward marker; the reverse slot
\* is the last whose basename contains the sample ID and the reverse marker
\* and not the forward marker; with both slots set, the absolute paths of
\* the two are returned.
C10_ForwardBeforeReverse ==
    (op = "get_readpair" /\ Returned) =>
        /\ loc.r1 = LastOf(args.fastq_file_list, IsForward)
        /\ loc.r2 = LastOf(args.fastq_file_list, IsReverseOnly)
        /\ (loc.r1 # None /\ loc.r2 # None)
               => /\ ret.exc = ""
                  /\ ret.val = <<Abspath(loc.r1), Abspath(loc.r2)>>

\* a list of three files of the sample ID: a forward file, a reverse file,
\* and last a file with both markers, which takes the forward slot
C10_Witness ==
    /\ op = "get_readpair"
    /\ pc = "done"
    /\ Len(args.fastq_file_list) = 3
    /\ \A i \in 1..3 : Contains(Basename(args.fastq_file_list[i]), args.sample_id)
    /\ IsForward(args.fastq_file_list[1])
    /\ IsReverseOnly(args.fastq_file_list[2])
    /\ IsForward(args.fastq_file_list[3]) /\ IsReverse(args.fastq_file_list[3])
    /\ loc.r1 = args.fastq_file_list[3]
    /\ loc.r2 = args.fastq_file_list[2]
    /\ ret.val = <<Abspath(loc.r1), Abspath(loc.r2)>>

(***************************************************************************)
(* The property of get_sample_dictionary, under SpecDict.                  *)
(***************************************************************************)

\* C3: the dictionary get_sample_dictionary returns has an entry only for
\* a sample ID that is valid and has a forward read file: an ID with no
\* file carrying the forward marker has no entry.
C3_OnlyPairedEntries ==
    (op = "get_sample_dictionary" /\ pc = "done") =>
        \A sample_id \in DOMAIN ret.val.value :
            /\ MatchesOlc(sample_id)
            /\ ret.val.value[sample_id] # None
            /\ \E n \in DOMAIN files[InDir] :
                   /\ Contains(n, sample_id)
                   /\ Contains(n, ForwardId)
                   /\ ret.val.value[sample_id][1] = Join(InDir, n)

(***************************************************************************)
(* The property of symlink_dictionary, under SpecLink.                     *)
(***************************************************************************)

\* the entries of the destination folder
Destination(fs) == fs[Abspath(args.destination_folder)]

\* the value of the item the loop is at
CurrentValue ==
    args.sample_dictionary.value[args.sample_dictionary.keys[loc.i + 1]]

\* whether the symlink to path is in the destination folder
Linked(fs, path) ==
    /\ Basename(path) \in DOMAIN Destination(fs)
    /\ Destination(fs)[Basename(path)] = Symlink(path)

\* one turn of the loop goes on to the next item, removes or changes
\* nothing of the destination, and leaves both symlinks of an item whose
\* two paths are set and whose two link names were free
C5_Turn ==
    (pc = "loop" /\ loc.i < Len(args.sample_dictionary.keys)) =>
        /\ pc' = "loop"
        /\ loc'.i = loc.i + 1
        /\ \A n \in DOMAIN Destination(files) :
               /\ n \in DOMAIN Destination(files')
               /\ Destination(files')[n] = Destination(files)[n]
        /\ (/\ CurrentValue # None
            /\ CurrentValue[2] # None
            /\ Basename(CurrentValue[1]) \notin DOMAIN Destination(files)
            /\ Basename(CurrentValue[2]) \notin DOMAIN Destination(files))
               => /\ Linked(files', CurrentValue[1])
                  /\ Linked(files', CurrentValue[2])

\* C5: symlink_dictionary ends without raising whatever the dictionary and
\* the destination hold; a sample whose linking fails does not stop the
\* loop; every item whose two paths are set and whose two link names are
\* free when the loop comes to it has both its symlinks afterwards; and
\* nothing that is in the destination is removed.
C5_FailureDoesNotStopLoop ==
    /\ [](op = "symlink_dictionary" =>
              /\ pc # "raised"
              /\ ret.exc = ""
              /\ pc = "done" => loc.i = Len(args.sample_dictionary.keys))
    /\ [][C5_Turn]_vars

\* the first sample could not be linked, its forward link name being taken
\* by a symlink that is still there, and the second sample has both its
\* symlinks
C5_Witness ==
    /\ op = "symlink_dictionary"
    /\ pc = "done"
    /\ Len(args.sample_dictionary.keys) = 2
    /\ LET first == args.sample_dictionary.value[args.sample_dictionary.keys[1]]
           second == args.sample_dictionary.value[args.sample_dictionary.keys[2]]
       IN  /\ first # None
           /\ first[2] # None
           /\ Basename(first[1]) \in DOMAIN Destination(files0)
           /\ Destination(files)[Basename(first[1])] = Symlink(OldTarget)
           /\ second # None
           /\ second[2] # None
           /\ second[1] # second[2]
           /\ ~Linked(files0, second[1]) /\ ~Linked(files0, second[2])
           /\ Linked(files, second[1]) /\ Linked(files, second[2])

(***************************************************************************)
(* The property of append_dummy_barcodes, under SpecBarcode.               *)
(***************************************************************************)

\* name with "_00" put in before its first "_S", if it has one
WithBarcode(name) ==
    IF ~Contains(name, LaneMarker) THEN name
    ELSE LET i == CHOOSE k \in 1..Len(name) :
                      /\ OccursAt(name, LaneMarker, k)
                      /\ \A j \in 1..(k - 1) : ~OccursAt(name, LaneMarker, j)
         IN  SubSeq(name, 1, i - 1) \o <<"_", "0", "0">> \o Drop(name, i - 1)

\* the name append_dummy_barcodes is to give an entry
Normalized(name) ==
    IF MatchesFastqGz(name) /\ MatchesOlc(Take(name, PrefixLen))
    THEN WithBarcode(name)
    ELSE name

\* the folder with each of the names of before normalized
NormalizedFolder(before, after) ==
    /\ DOMAIN after = {Normalized(n) : n \in DOMAIN before}
    /\ \A n \in DOMAIN before : after[Normalized(n)] = before[n]

\* C6: append_dummy_barcodes gives each .fastq.gz entry with a valid ID its
\* name with "_00" put in once, before the first "_S" of the filename, with
\* the directory part and the link target as they were, and leaves every
\* other entry its name.
C6_BarcodeOnce ==
    (op = "append_dummy_barcodes" /\ Returned) =>
        /\ ret.exc = ""
        /\ DOMAIN files = DOMAIN files0
        /\ NormalizedFolder(files0[args.path], files[args.path])

(***************************************************************************)
(* The properties of project_setup, under SpecSetup.                       *)
(***************************************************************************)

\* the read files of the input directory, by name
InputNames == DOMAIN files0[InDir]

\* the sample has one file with the forward marker alone and one with the
\* reverse marker alone
OnePair(sample_id) ==
    /\ Cardinality({n \in InputNames : Take(n, PrefixLen) = sample_id}) = 2
    /\ \E f, r \in InputNames :
           /\ Take(f, PrefixLen) = sample_id /\ Take(r, PrefixLen) = sample_id
           /\ Contains(f, ForwardId) /\ ~Contains(f, ReverseId)
           /\ Contains(r, ReverseId) /\ ~Contains(r, ForwardId)

\* 4 read files, of 2 valid sample IDs with one pair each
TwoSamplesTwoReads ==
    /\ Cardinality(InputNames) = 4
    /\ \A n \in InputNames :
           /\ MatchesFastqGz(n)
           /\ MatchesOlc(Take(n, PrefixLen))
           /\ OnePair(Take(n, PrefixLen))

DataDir == Abspath(Join(args.outdir, DataName))

\* the data folder project_setup is to leave: for each input file a symlink
\* to its absolute path, under its name with the barcode
MaterializedData ==
    [n \in {WithBarcode(m) : m \in InputNames} |->
        Symlink(Join(InDir, CHOOSE m \in InputNames : WithBarcode(m) = n))]

\* C7: with 4 read files of 2 valid sample IDs, a forward and a reverse
\* read each, and no output directory yet, project_setup ends with exactly
\* the 4 symlinks in the data folder, each under its source's basename
\* with "_00" before "_S" and to its source's absolute path, the import
\* executed once on the data folder after the renames, and returns
\* outdir/qiime2/paired-sample-data.qza.
C7_EndToEnd ==
    (/\ op = "project_setup"
     /\ Returned
     /\ TwoSamplesTwoReads
     /\ ~IsDir(files0, Abspath(args.outdir)))
        => /\ pc = "done"
           /\ files[DataDir] = MaterializedData
           /\ Len(cmds) = 1
           /\ cmds[1].cmd.input_path = Join(args.outdir, DataName)
           /\ cmds[1].sees = MaterializedData
           /\ ret.val = Join(Join(args.outdir, QiimeName), ArtifactName)

\* C8: with the output directory there already, project_setup raises from
\* its first statement: no directory is made, the input directory is not
\* read, no symlink is made or renamed, no command is executed, and the
\* file system is as it was.
C8_ExistingOutdirIsFatal ==
    (op = "project_setup" /\ IsDir(files0, Abspath(args.outdir))) =>
        /\ pc \in {"mkdir_outdir", "raised"}
        /\ pc = "raised" => ret.exc = "FileExistsError"
        /\ files = files0
        /\ loc = <<>>
        /\ log = <<>>
        /\ cmds = <<>>

\* project_setup has raised on the output directory of an earlier run, with
\* read files waiting in the input directory
C8_Witness ==
    /\ op = "project_setup"
    /\ pc = "raised"
    /\ ret.exc = "FileExistsError"
    /\ IsDir(files0, DataDir)
    /\ Cardinality(InputNames) = MaxFiles
    /\ files = files0

(***************************************************************************)
(* The property of make_interop_summary, under SpecInterop.                *)
(***************************************************************************)

\* the bytes interop_summary wrote to its standard output
CapturedOutput == cmds[1].run.out

SummaryPath == Abspath(args.outdir)

\* C9: make_interop_summary never raises, and writes the tool's output to
\* interop_summary.csv exactly when the output begins with "# Version" and
\* is longer than 4000 characters; otherwise it writes no file.
C9_WritesIffAccepted ==
    (op = "make_interop_summary" /\ Returned) =>
        /\ ret.exc = ""
        /\ IF Take(CapturedOutput, VersionLen) = VersionPrefix
                  /\ Len(CapturedOutput) > MinLen
           THEN /\ IsDir(files, SummaryPath)
                /\ InteropName \in DOMAIN files[SummaryPath]
                /\ files[SummaryPath][InteropName] = RegularFile(CapturedOutput)
           ELSE files = files0

=============================================================================
